---------------------------- MODULE Spec2Model ----------------------------
(***************************************************************************)
(* BuyClub Page Analyzer (src/app.py): the analysis request of one         *)
(* Streamlit session, its research pipeline (query planning, one search    *)
(* call per planned query, dedup/denylist/label filter, formatting), the   *)
(* report generator call and the archive's score extraction.               *)
(*                                                                         *)
(* Python strings are TLA+ strings (Len, \o and SubSeq work on them in     *)
(* TLC); a Python list is a sequence; a dict is a record that may lack     *)
(* fields; an Optional[str] is a sequence of zero (None) or one string.    *)
(***************************************************************************)
EXTENDS Integers, Sequences, FiniteSets, TLC

VARIABLES
    analysis_result,        \* st.session_state.analysis_result: None or a text
    current_archive_name,   \* st.session_state.current_archive_name
    current_category,       \* st.session_state.current_category
    last_analysis_time,     \* st.session_state.last_analysis_time
    now,                    \* time.time(), in seconds
    archive_name,           \* widget values read by the running request
    merchant_name,
    category,
    location,
    treatment_term,
    pc,                     \* position of the script run
    queries,                \* perform_research: the planned queries
    qi,                     \* index (1-based) of the query the loop is at
    all_results,            \* perform_research: all_results
    submitted,              \* every query handed to tavily.search, in call order
    responses,              \* what each of those calls ended with
    evidence,               \* the entries behind context_data, unformatted
    search_results,         \* perform_research's return value
    genCalls,               \* calls of model.generate_content in this request
    genOutcome,             \* how that call ended: "none", "ok" or "failed"
    displayed,              \* what the report block of the page shows
    notice,                 \* the message of the analysis block, if any
    archive                 \* the row last appended to the Analysis_Archive worksheet

vars == << analysis_result, current_archive_name, current_category,
           last_analysis_time, now, archive_name, merchant_name, category,
           location, treatment_term, pc, queries, qi, all_results, submitted,
           responses, evidence, search_results, genCalls, genOutcome, displayed,
           notice,
           archive >>

----------------------------------------------------------------------------
(* Python string primitives *)

\* s[i], 1-based
CharAt(s, i) == SubSeq(s, i, i)

\* sub in s
Contains(s, sub) ==
    \E i \in 1..(Len(s) - Len(sub) + 1) : SubSeq(s, i, i + Len(sub) - 1) = sub

\* s.startswith(p)
StartsWith(s, p) == Len(p) <= Len(s) /\ SubSeq(s, 1, Len(p)) = p

\* s.find(sub) + 1, and 0 when sub is not in s
Find(s, sub) ==
    IF Contains(s, sub)
    THEN CHOOSE i \in 1..(Len(s) - Len(sub) + 1) :
            /\ SubSeq(s, i, i + Len(sub) - 1) = sub
            /\ \A j \in 1..(i - 1) : SubSeq(s, j, j + Len(sub) - 1) # sub
    ELSE 0

\* s.split(sep), sep a non-empty string
RECURSIVE Split(_, _)
Split(s, sep) ==
    LET i == Find(s, sep) IN
    IF i = 0 THEN << s >>
    ELSE << SubSeq(s, 1, i - 1) >> \o Split(SubSeq(s, i + Len(sep), Len(s)), sep)

\* str.isspace() of one character
IsSpace(c) == c \in {" ", "\t", "\n", "\r", "\f"}

\* s.strip()
RECURSIVE LStrip(_)
LStrip(s) ==
    IF Len(s) > 0 /\ IsSpace(CharAt(s, 1)) THEN LStrip(SubSeq(s, 2, Len(s))) ELSE s

RECURSIVE RStrip(_)
RStrip(s) ==
    IF Len(s) > 0 /\ IsSpace(CharAt(s, Len(s))) THEN RStrip(SubSeq(s, 1, Len(s) - 1)) ELSE s

Strip(s) == RStrip(LStrip(s))

\* sep.join(parts)
RECURSIVE Join(_, _)
Join(sep, parts) ==
    IF Len(parts) = 0 THEN ""
    ELSE IF Len(parts) = 1 THEN parts[1]
    ELSE parts[1] \o sep \o Join(sep, Tail(parts))

UpperLetters == "ABCDEFGHIJKLMNOPQRSTUVWXYZ"
LowerLetters == "abcdefghijklmnopqrstuvwxyz"

\* c.lower() of one character
LowerChar(c) ==
    IF \E i \in 1..Len(UpperLetters) : CharAt(UpperLetters, i) = c
    THEN CharAt(LowerLetters, CHOOSE i \in 1..Len(UpperLetters) : CharAt(UpperLetters, i) = c)
    ELSE c

\* s.lower()
RECURSIVE Lower(_)
Lower(s) ==
    IF Len(s) = 0 THEN "" ELSE LowerChar(CharAt(s, 1)) \o Lower(SubSeq(s, 2, Len(s)))

IsDigit(c) == c \in {"0", "1", "2", "3", "4", "5", "6", "7", "8", "9"}

\* Optional[str]
None == << >>
Some(s) == << s >>
\* bool(x) of an Optional[str]: None and "" are falsy
Truthy(x) == x # None /\ x[1] # ""

----------------------------------------------------------------------------
(* perform_research, part 1-2: the planned queries *)

\* the add-on of the Spa branch
SpaQuery(merchant, treatment_terms) ==
    LET search_scope == "site:elle.com OR site:cosmopolitan.com OR site:vogue.com OR site:marieclaire.com"
        raw == Split(treatment_terms, ",")
        terms == [i \in 1..Len(raw) |-> Strip(raw[i])]
        joined_terms == Join(" OR ", [i \in 1..Len(terms) |-> "\"" \o terms[i] \o "\""])
    IN  IF treatment_terms # ""
        THEN search_scope \o " (" \o joined_terms \o ")"
        ELSE search_scope \o " " \o merchant

RestaurantQueries(merchant) ==
    << "site:guide.michelin.com/ch/fr " \o merchant,
       "site:gaultmillau.ch/fr " \o merchant,
       "site:lematin.ch OR site:20min.ch OR site:tdg.ch OR site:letemps.ch " \o merchant >>

HotelQueries(merchant, loc) ==
    << "site:booking.com " \o merchant \o " " \o loc \o " reviews",
       "site:tripadvisor.com " \o merchant \o " \"Certificate of Excellence\"" >>

BaseQuery(merchant, loc) == merchant \o " " \o loc \o " google reviews official website"

\* a variant of PlanQueries that tests every category branch with its own `if`
PlanQueriesEveryBranch(merchant, cat, loc, treatment_terms) ==
    << BaseQuery(merchant, loc) >>
    \o (IF cat # "" /\ Contains(cat, "Restaurant") THEN RestaurantQueries(merchant) ELSE << >>)
    \o (IF cat # "" /\ Contains(cat, "Hotel") THEN HotelQueries(merchant, loc) ELSE << >>)
    \o (IF cat # "" /\ Contains(cat, "Spa") THEN << SpaQuery(merchant, treatment_terms) >> ELSE << >>)

\* queries, as built by the if / elif / elif chain
PlanQueries(merchant, cat, loc, treatment_terms) ==
    << BaseQuery(merchant, loc) >>
    \o (IF cat # "" /\ Contains(cat, "Restaurant") THEN RestaurantQueries(merchant)
        ELSE IF cat # "" /\ Contains(cat, "Hotel") THEN HotelQueries(merchant, loc)
        ELSE IF cat # "" /\ Contains(cat, "Spa") THEN << SpaQuery(merchant, treatment_terms) >>
        ELSE << >>)

----------------------------------------------------------------------------
(* perform_research, part 4: filter and format *)

banned_domains == << "wanderlog.com", "restaurantguru.com", "sluurpy.com", "top10.com", "trip.com" >>

\* domain = url.split('/')[2] if '//' in url else url.split('/')[0]
DomainOf(url) ==
    IF Contains(url, "//") THEN Split(url, "/")[3] ELSE Split(url, "/")[1]

\* a variant of AlreadySeen that never finds a url
AlreadySeenNever(url, seen_urls) == FALSE

\* url in seen_urls
AlreadySeen(url, seen_urls) == url \in seen_urls

\* a variant of IsBanned that compares the whole domain
IsBannedExact(domain) ==
    \E k \in 1..Len(banned_domains) : banned_domains[k] = domain

\* any(bad in domain for bad in banned_domains)
IsBanned(domain) ==
    \E k \in 1..Len(banned_domains) : Contains(domain, banned_domains[k])

\* a variant of SourceLabel that tests booking.com before google
SourceLabelBookingFirst(domain) ==
    IF Contains(domain, "booking.com") THEN "BOOKING.COM"
    ELSE IF Contains(domain, "google") THEN "GOOGLE REVIEWS"
    ELSE IF Contains(domain, "michelin") THEN "MICHELIN GUIDE (Swiss/FR)"
    ELSE IF Contains(domain, "gaultmillau") THEN "GAULT MILLAU (Swiss/FR)"
    ELSE IF Contains(domain, "tripadvisor") THEN "TRIPADVISOR"
    ELSE IF Contains(domain, "lematin") \/ Contains(domain, "20min") \/ Contains(domain, "tdg.ch")
         THEN "SWISS PRESS"
    ELSE IF Contains(domain, "elle") \/ Contains(domain, "vogue") \/ Contains(domain, "cosmo")
         THEN "FASHION MAGAZINE"
    ELSE "General Web"

\* source_label, by the if / elif chain
SourceLabel(domain) ==
    IF Contains(domain, "google") THEN "GOOGLE REVIEWS"
    ELSE IF Contains(domain, "booking.com") THEN "BOOKING.COM"
    ELSE IF Contains(domain, "michelin") THEN "MICHELIN GUIDE (Swiss/FR)"
    ELSE IF Contains(domain, "gaultmillau") THEN "GAULT MILLAU (Swiss/FR)"
    ELSE IF Contains(domain, "tripadvisor") THEN "TRIPADVISOR"
    ELSE IF Contains(domain, "lematin") \/ Contains(domain, "20min") \/ Contains(domain, "tdg.ch")
         THEN "SWISS PRESS"
    ELSE IF Contains(domain, "elle") \/ Contains(domain, "vogue") \/ Contains(domain, "cosmo")
         THEN "FASHION MAGAZINE"
    ELSE "General Web"

\* a variant of AppendEntry that puts the new entry first
AppendEntryFront(context_data, entry) == << entry >> \o context_data

\* context_data.append(...)
AppendEntry(context_data, entry) == Append(context_data, entry)

\* the f-string appended to context_data
FormatEntry(e) ==
    "SOURCE: " \o e.source_label \o "\nURL: " \o e.url \o "\nTITLE: " \o e.title
    \o "\nSNIPPET: " \o e.snippet \o "\n-------------------"

\* the first of result['url'], result['title'], result['content'] that raises KeyError
MissingKey(result) ==
    IF "url" \notin DOMAIN result THEN "url"
    ELSE IF "title" \notin DOMAIN result THEN "title"
    ELSE IF "content" \notin DOMAIN result THEN "content"
    ELSE ""

\* the loop over all_results from position i on; a KeyError leaves the loop
RECURSIVE FilterLoop(_, _, _, _)
FilterLoop(results, i, seen_urls, context_data) ==
    IF i > Len(results) THEN [raised |-> FALSE, entries |-> context_data]
    ELSE LET result == results[i] IN
         IF MissingKey(result) # ""
         THEN [raised |-> TRUE, error |-> "'" \o MissingKey(result) \o "'"]
         ELSE LET url == result.url
                  domain == DomainOf(url)
              IN  IF AlreadySeen(url, seen_urls)
                  THEN FilterLoop(results, i + 1, seen_urls, context_data)
                  ELSE IF IsBanned(domain)
                  THEN FilterLoop(results, i + 1, seen_urls \cup {url}, context_data)
                  ELSE FilterLoop(results, i + 1, seen_urls \cup {url},
                                  AppendEntry(context_data,
                                              [source_label |-> SourceLabel(domain),
                                               url |-> url,
                                               title |-> result.title,
                                               snippet |-> result.content]))

\* the entries behind context_data; none when the loop raised
FilteredEntries(results) ==
    LET r == FilterLoop(results, 1, {}, << >>) IN
    IF r.raised THEN << >> ELSE r.entries

\* the value perform_research returns for all_results
ResearchOutput(results) ==
    LET r == FilterLoop(results, 1, {}, << >>) IN
    IF r.raised THEN "Search failed: " \o r.error
    ELSE Join("\n", [k \in 1..Len(r.entries) |-> FormatEntry(r.entries[k])])

----------------------------------------------------------------------------
(* The search provider: what one tavily.search call can end with *)

MaxResults == 5

RawA  == [url |-> "https://www.google.com/maps/place/m", title |-> "A", content |-> "a"]
RawA2 == [url |-> "https://www.google.com/maps/place/m", title |-> "A again", content |-> "a2"]
RawB  == [url |-> "https://www.booking.com/hotel/m", title |-> "B", content |-> "b"]
RawC  == [url |-> "https://example.ch/m", title |-> "C", content |-> "c"]
RawD  == [url |-> "https://www.trip.com/m", title |-> "D", content |-> "d"]
RawE  == [url |-> "example.com/go/trip.com", title |-> "E", content |-> "e"]
RawF  == [url |-> "https://example.ch/other", title |-> "F", content |-> "f"]
RawG  == [url |-> "https://google.booking.com/m", title |-> "G", content |-> "g"]
RawH  == [url |-> "example.com/r//trip.com/m", title |-> "H", content |-> "h"]
RawNoTitle == [url |-> "https://example.ch/untitled", content |-> "n"]

\* the call raised
Raised == [tag |-> "exception"]
\* the call returned something that is not a dict
NotADict == [tag |-> "not_a_dict"]
\* the call returned a dict
Dict(d) == [tag |-> "dict", dict |-> d]

ResultPages ==
    { << RawA, RawB >>, << RawC, RawA2, RawD >>, << RawE, RawF, RawG, RawH >>,
      << RawB, RawNoTitle, RawC >> }

Responses ==
    { Raised, NotADict, Dict([answer |-> "none"]) }
    \cup { Dict([results |-> p]) : p \in { q \in ResultPages : Len(q) <= MaxResults } }

\* the responses drawn while a whole analysis request runs
SessionResponses ==
    { Raised, Dict([results |-> << RawA, RawB >>]), Dict([results |-> << RawNoTitle >>]) }

\* response.get('results', []); None when the call or the .get raised
ResultsOf(response) ==
    IF response.tag # "dict" THEN None
    ELSE IF "results" \in DOMAIN response.dict THEN Some(response.dict.results)
    ELSE Some(<< >>)

\* a variant of NextQueryIndex that stays on a query whose call failed
NextQueryIndexRetry(i, response) ==
    IF ResultsOf(response) = None THEN i ELSE i + 1

\* the for loop moves to the next query, after extend as after continue
NextQueryIndex(i, response) == i + 1

----------------------------------------------------------------------------
(* perform_research as a process *)

sessionVars == << analysis_result, current_archive_name, current_category,
                  last_analysis_time, archive >>
researchVars == << queries, qi, all_results, submitted, responses, evidence,
                   search_results >>
inputVars == << archive_name, merchant_name, category, location, treatment_term >>
pageVars == << genCalls, genOutcome, displayed, notice >>

\* entry of perform_research: the queries are planned, nothing is searched yet
EnterResearch(merchant, cat, loc, treatment_terms) ==
    /\ queries' = PlanQueries(merchant, cat, loc, treatment_terms)
    /\ qi' = 1
    /\ all_results' = << >>
    /\ submitted' = << >>
    /\ responses' = << >>
    /\ evidence' = << >>
    /\ search_results' = None

\* perform_research's locals are gone once the script run that called it ends
LeaveResearch ==
    /\ queries' = << >>
    /\ qi' = 1
    /\ all_results' = << >>
    /\ submitted' = << >>
    /\ responses' = << >>
    /\ evidence' = << >>
    /\ search_results' = None

\* tavily.search(query=q, ...) is called for the query the loop is at
SubmitQuery ==
    /\ pc = "search"
    /\ qi <= Len(queries)
    /\ submitted' = Append(submitted, queries[qi])
    /\ pc' = "waiting"
    /\ UNCHANGED << sessionVars, inputVars, pageVars, now, queries, qi, all_results,
                    responses, evidence, search_results >>

\* the call ends: its results extend all_results, or the except clause continues
QueryReturns(pool) ==
    /\ pc = "waiting"
    /\ \E response \in pool :
          /\ responses' = Append(responses, response)
          /\ all_results' = IF ResultsOf(response) = None THEN all_results
                            ELSE all_results \o ResultsOf(response)[1]
          /\ qi' = NextQueryIndex(qi, response)
    /\ pc' = "search"
    /\ UNCHANGED << sessionVars, inputVars, pageVars, now, queries, submitted,
                    evidence, search_results >>

\* after the last query: filter, label, format and return
FilterAndFormat ==
    /\ pc = "search"
    /\ qi > Len(queries)
    /\ evidence' = FilteredEntries(all_results)
    /\ search_results' = Some(ResearchOutput(all_results))
    /\ pc' = "analyze"
    /\ UNCHANGED << sessionVars, inputVars, pageVars, now, queries, qi, all_results,
                    submitted, responses >>

----------------------------------------------------------------------------
(* scrape_url, analyze_with_gemini, archive_report *)

\* scrape_url(url): the page text, or a text starting with "Error scraping"
ScrapeUrl(url, fetched) ==
    IF url = "" \/ ~(StartsWith(url, "http://") \/ StartsWith(url, "https://"))
    THEN "Error scraping URL: Invalid URL format (must start with http:// or https://)"
    ELSE IF ~fetched THEN "Error scraping URL: timed out"
    ELSE "page text"

\* a variant of GeminiErrorText that returns the exception's text alone
GeminiErrorTextBare(e) == e

\* the except clause of analyze_with_gemini, e the text of the exception
GeminiErrorText(e) ==
    LET error_str == Lower(e) IN
    IF Contains(error_str, "quota") \/ Contains(error_str, "rate") \/ Contains(error_str, "resource")
    THEN "FATAL ERROR: API rate limit exceeded. Please try again in a few minutes."
    ELSE IF Contains(error_str, "safety") \/ Contains(error_str, "blocked")
    THEN "FATAL ERROR: Content was flagged by safety filters. Try rephrasing your input or contact support."
    ELSE IF Contains(error_str, "invalid") /\ Contains(error_str, "api")
    THEN "FATAL ERROR: API key issue. Please verify your GOOGLE_API_KEY in secrets."
    ELSE "FATAL ERROR: " \o e

\* the report block at the end of a script run
Display(result) ==
    IF Truthy(result)
    THEN (IF Contains(result[1], "FATAL ERROR") THEN "error" ELSE "markdown")
    ELSE "none"

\* [:\s]
IsSepChar(c) == c = ":" \/ IsSpace(c)

AllSep(text, from, to) == \A j \in from..to : IsSepChar(CharAt(text, j))

AllDigits(text, from, to) == \A j \in from..to : IsDigit(CharAt(text, j))

\* the pairs (k, d) with which Score[:\s]+(\d{1,3})(?:\D|$) matches at position i,
\* ignoring case: k separator characters, d digits
ScoreMatchesAt(text, i) ==
    IF i + 4 > Len(text) \/ Lower(SubSeq(text, i, i + 4)) # "score" THEN {}
    ELSE { m \in (1..(Len(text) - i - 4)) \X (1..3) :
             LET digFrom == i + 5 + m[1]
                 after == digFrom + m[2]
             IN  /\ after - 1 <= Len(text)
                 /\ AllSep(text, i + 5, digFrom - 1)
                 /\ AllDigits(text, digFrom, after - 1)
                 /\ (after > Len(text) \/ ~IsDigit(CharAt(text, after))) }

\* the match the regex engine takes at i: the greedy + first, then the greedy {1,3}
ScoreGroupAt(text, i) ==
    LET ms == ScoreMatchesAt(text, i)
        best == CHOOSE m \in ms :
                    \A o \in ms : o[1] < m[1] \/ (o[1] = m[1] /\ o[2] <= m[2])
    IN  SubSeq(text, i + 5 + best[1], i + 5 + best[1] + best[2] - 1)

\* the pairs (k, d) with which Score[:\s]+(\d{1,3}), without the (?:\D|$), matches at i
ScoreMatchesNoGuardAt(text, i) ==
    IF i + 4 > Len(text) \/ Lower(SubSeq(text, i, i + 4)) # "score" THEN {}
    ELSE { m \in (1..(Len(text) - i - 4)) \X (1..3) :
             LET digFrom == i + 5 + m[1]
                 after == digFrom + m[2]
             IN  /\ after - 1 <= Len(text)
                 /\ AllSep(text, i + 5, digFrom - 1)
                 /\ AllDigits(text, digFrom, after - 1) }

\* a variant of ExtractScore without the (?:\D|$) after the digits
ExtractScoreNoGuard(text) ==
    LET hits == { i \in 1..Len(text) : ScoreMatchesNoGuardAt(text, i) # {} } IN
    IF hits = {} THEN "N/A"
    ELSE LET i == CHOOSE h \in hits : \A o \in hits : h <= o
             ms == ScoreMatchesNoGuardAt(text, i)
             best == CHOOSE m \in ms :
                        \A o \in ms : o[1] < m[1] \/ (o[1] = m[1] /\ o[2] <= m[2])
         IN  SubSeq(text, i + 5 + best[1], i + 5 + best[1] + best[2] - 1)

\* score_match = re.search(...); score = score_match.group(1) if score_match else "N/A"
ExtractScore(text) ==
    LET hits == { i \in 1..Len(text) : ScoreMatchesAt(text, i) # {} } IN
    IF hits = {} THEN "N/A"
    ELSE ScoreGroupAt(text, CHOOSE h \in hits : \A o \in hits : h <= o)

\* the row archive_report appends (its timestamp column is left out)
ArchiveRow(deal_name, cat, report_text) ==
    [deal_name |-> deal_name, category |-> cat, score |-> ExtractScore(report_text),
     report_text |-> report_text]

----------------------------------------------------------------------------
(* One Streamlit session: every action is one script run, or one wait of it *)

Cooldown == 10
StartTime == 100
MaxTime == 115

ArchiveNames == { "", "Amore Feb 2026", "Bellevue Mar 2026" }
SessionMerchants == { "", "Amore Amore" }
SessionCategories == { "General", "Spa" }
SessionLocations == { "Geneva" }
PageUrls == { "", "buyclub.ch/deal", "https://buyclub.ch/deal" }
SessionTreatments == { "", "Microneedling, Botox" }
\* what response.text can be
SessionReports == { "Score: 87/100 - Needs Review", "" }
\* what str(e) of a failed generate_content can be
GenErrors == { "429 Quota exceeded", "Response BLOCKED", "Invalid API key", "connection reset" }

\* everything but the stored result: no request has run, no button was clicked
InitRest ==
    /\ last_analysis_time = 0
    /\ now = StartTime
    /\ archive_name = ""
    /\ merchant_name = ""
    /\ category = "General"
    /\ location = "Geneva"
    /\ treatment_term = ""
    /\ pc = "idle"
    /\ queries = << >>
    /\ qi = 1
    /\ all_results = << >>
    /\ submitted = << >>
    /\ responses = << >>
    /\ evidence = << >>
    /\ search_results = None
    /\ genCalls = 0
    /\ genOutcome = "none"
    /\ displayed = "none"
    /\ notice = "none"
    /\ archive = None

\* a fresh session
Init ==
    /\ analysis_result = None
    /\ current_archive_name = ""
    /\ current_category = ""
    /\ InitRest

\* time passes between two script runs
Tick ==
    /\ pc = "idle"
    /\ \E d \in {5, 10} : now + d <= MaxTime /\ now' = now + d
    /\ UNCHANGED << sessionVars, inputVars, researchVars, pageVars, pc >>

\* a variant of InCooldown under which no request is too early
InCooldownNever(t, last) == FALSE

\* time_since_last = time.time() - last_analysis_time; time_since_last < 10
InCooldown(t, last) == t - last < Cooldown

\* "Analyze Page" is clicked: the script run up to the first search call
AnalyzeClick ==
    /\ pc = "idle"
    /\ \E an \in ArchiveNames, mn \in SessionMerchants, cat \in SessionCategories,
          loc \in SessionLocations, page_url \in PageUrls, fetched \in BOOLEAN,
          tt \in SessionTreatments :
          \* the treatment field exists only for a Spa category
          /\ (tt # "" => Contains(cat, "Spa"))
          /\ IF an = "" \/ mn = "" \/ page_url = ""
             THEN /\ notice' = "mandatory"
                  /\ displayed' = Display(analysis_result)
                  /\ UNCHANGED << sessionVars, inputVars, researchVars, genCalls,
                                  genOutcome, pc >>
             ELSE IF InCooldown(now, last_analysis_time)
             THEN /\ notice' = "cooldown"
                  /\ displayed' = Display(analysis_result)
                  /\ UNCHANGED << sessionVars, inputVars, researchVars, genCalls,
                                  genOutcome, pc >>
             ELSE /\ last_analysis_time' = now
                  /\ analysis_result' = None
                  /\ current_archive_name' = ""
                  /\ current_category' = ""
                  /\ archive_name' = an
                  /\ merchant_name' = mn
                  /\ category' = cat
                  /\ location' = loc
                  /\ treatment_term' = tt
                  /\ genCalls' = 0
                  /\ genOutcome' = "none"
                  /\ UNCHANGED archive
                  /\ IF StartsWith(ScrapeUrl(page_url, fetched), "Error scraping")
                     THEN \* st.stop(): the run ends before the report block
                          /\ notice' = "scrape_failed"
                          /\ displayed' = "none"
                          /\ UNCHANGED << researchVars, pc >>
                     ELSE /\ notice' = "none"
                          /\ displayed' = "none"
                          /\ EnterResearch(mn, cat, loc, tt)
                          /\ pc' = "search"
    /\ UNCHANGED now

\* analyze_with_gemini returns, the result is stored and the report block is drawn
Generate ==
    /\ pc = "analyze"
    /\ \E failed \in BOOLEAN, text \in SessionReports \cup GenErrors :
          /\ (failed <=> text \in GenErrors)
          /\ LET report == IF failed THEN GeminiErrorText(text) ELSE text IN
                /\ analysis_result' = Some(report)
                /\ displayed' = Display(Some(report))
          /\ genOutcome' = IF failed THEN "failed" ELSE "ok"
    /\ genCalls' = genCalls + 1
    /\ current_archive_name' = archive_name
    /\ current_category' = category
    /\ pc' = "idle"
    /\ LeaveResearch
    /\ UNCHANGED << last_analysis_time, archive, inputVars, notice, now >>

\* "Save to Archive" is clicked; the button exists while a result is stored
SaveClick ==
    /\ pc = "idle"
    /\ Truthy(analysis_result)
    /\ \E sh \in BOOLEAN, appended \in BOOLEAN :
          archive' = IF sh /\ appended
                     THEN Some(ArchiveRow(current_archive_name, current_category,
                                          analysis_result[1]))
                     ELSE archive
    /\ displayed' = Display(analysis_result)
    /\ UNCHANGED << analysis_result, current_archive_name, current_category,
                    last_analysis_time, inputVars, researchVars, genCalls, genOutcome,
                    notice, pc, now >>

\* a variant of TrashClick that clears the result and leaves its name and category
TrashClickResultOnly ==
    /\ pc = "idle"
    /\ Truthy(analysis_result)
    /\ analysis_result' = None
    /\ displayed' = "none"
    /\ UNCHANGED << current_archive_name, current_category, last_analysis_time, archive,
                    inputVars, researchVars, genCalls, genOutcome, notice, pc, now >>

\* "Trash / Clear" is clicked
TrashClick ==
    /\ pc = "idle"
    /\ Truthy(analysis_result)
    /\ analysis_result' = None
    /\ current_archive_name' = ""
    /\ current_category' = ""
    /\ displayed' = "none"
    /\ UNCHANGED << last_analysis_time, archive, inputVars, researchVars, genCalls,
                    genOutcome, notice, pc, now >>

Next ==
    \/ Tick
    \/ AnalyzeClick
    \/ SubmitQuery
    \/ QueryReturns(SessionResponses)
    \/ FilterAndFormat
    \/ Generate
    \/ SaveClick
    \/ TrashClick

Spec == Init /\ [][Next]_vars

----------------------------------------------------------------------------
(* perform_research on its own, over wider inputs *)

Merchants == { "Le Petit Cafe", "Hotel Restaurant Spa Bellevue" }
Categories == { "", "General", "Restaurant", "Hotel", "Spa", "Restaurant & Hotel",
                "Hotel & Spa", "restaurant" }
Locations == { "Geneva" }
Treatments == { "", "Microneedling, Botox" }

\* perform_research(merchant_name, category, location, treatment_terms) is called
ResearchCall ==
    /\ pc = "idle"
    /\ \E mn \in Merchants, cat \in Categories, loc \in Locations, tt \in Treatments :
          /\ merchant_name' = mn
          /\ category' = cat
          /\ location' = loc
          /\ treatment_term' = tt
          /\ EnterResearch(mn, cat, loc, tt)
    /\ pc' = "search"
    /\ UNCHANGED << sessionVars, pageVars, archive_name, now >>

\* the caller takes the returned text
ResearchReturn ==
    /\ pc = "analyze"
    /\ pc' = "idle"
    /\ LeaveResearch
    /\ UNCHANGED << sessionVars, pageVars, inputVars, now >>

NextResearch ==
    \/ ResearchCall
    \/ SubmitQuery
    \/ QueryReturns(Responses)
    \/ FilterAndFormat
    \/ ResearchReturn

SpecResearch == Init /\ [][NextResearch]_vars

----------------------------------------------------------------------------
(* archive_report on its own, over wider report texts *)

ScorePrefixes == { "", "Final " }
ScoreTokens == { "Score", "score", "SCORE", "Scor", "Scores" }
ScoreSeparators == { "", ":", ": ", " ", ":\n ", " - " }
ScoreDigits == { "", "8", "87", "100", "1234" }
ScoreSuffixes == { "", "/100 - Needs Review", " Score: 5" }

ReportTexts ==
    { p \o t \o sep \o d \o x :
        p \in ScorePrefixes, t \in ScoreTokens, sep \in ScoreSeparators,
        d \in ScoreDigits, x \in ScoreSuffixes }

\* a session that holds a generated report
InitArchive ==
    /\ InitRest
    /\ \E text \in ReportTexts :
          /\ analysis_result = Some(text)
          /\ current_archive_name = "Amore Feb 2026"
          /\ current_category = "General"

NextArchive ==
    \/ SaveClick
    \/ TrashClick

SpecArchive == InitArchive /\ [][NextArchive]_vars

----------------------------------------------------------------------------
(* What the claims speak of *)

\* the raw results in the order they were observed: the pages of the calls
\* that returned one, in call order
RECURSIVE ObservedFrom(_, _)
ObservedFrom(resps, k) ==
    IF k > Len(resps) THEN << >>
    ELSE (IF ResultsOf(resps[k]) = None THEN << >> ELSE ResultsOf(resps[k])[1])
         \o ObservedFrom(resps, k + 1)

Observed == ObservedFrom(responses, 1)

\* perform_research has returned a block of evidence (it did not raise)
Emitted == pc = "analyze" /\ ~StartsWith(search_results[1], "Search failed")

\* the positions of url among the observed results
PositionsOf(url) == { k \in 1..Len(Observed) : Observed[k].url = url }

FirstPosition(url) == CHOOSE k \in PositionsOf(url) : \A o \in PositionsOf(url) : k <= o

\* the position of the n-th "/" of url, and Len(url) + 1 when it has fewer
NthSlash(url, n) ==
    LET slashes == { i \in 1..Len(url) : CharAt(url, i) = "/" } IN
    IF Cardinality(slashes) < n THEN Len(url) + 1
    ELSE CHOOSE i \in slashes : Cardinality({ j \in slashes : j <= i }) = n

\* the url's third "/"-separated segment when it contains "//", else its first
SegmentDomain(url) ==
    IF Contains(url, "//") THEN SubSeq(url, NthSlash(url, 2) + 1, NthSlash(url, 3) - 1)
    ELSE SubSeq(url, 1, NthSlash(url, 1) - 1)

\* the substring between the first "//" and the next "/", or the whole url
\* when it contains no "//"
HostDomain(url) ==
    IF ~Contains(url, "//") THEN url
    ELSE LET from == Find(url, "//") + 2
             rest == SubSeq(url, from, Len(url))
         IN  IF Contains(rest, "/") THEN SubSeq(rest, 1, Find(rest, "/") - 1) ELSE rest

Denylisted(domain) ==
    \E bad \in { "wanderlog.com", "restaurantguru.com", "sluurpy.com", "top10.com", "trip.com" } :
        Contains(domain, bad)

----------------------------------------------------------------------------
(* C1: the evidence perform_research emits holds no two entries with the   *)
(* same url; an entry is the first observed result with its url (its title *)
(* and snippet are that result's), whichever query produced the later ones *)
C1_NoDuplicateUrl ==
    Emitted =>
        /\ \A i, j \in 1..Len(evidence) : i # j => evidence[i].url # evidence[j].url
        /\ \A i \in 1..Len(evidence) :
              /\ PositionsOf(evidence[i].url) # {}
              /\ LET first == Observed[FirstPosition(evidence[i].url)] IN
                    /\ evidence[i].title = first.title
                    /\ evidence[i].snippet = first.content

\* two queries returned the same url with different titles; it is emitted once
C1_Witness ==
    /\ Emitted
    /\ \E i \in 1..Len(evidence) :
          /\ evidence[i].url = RawA.url
          /\ evidence[i].title = RawA.title
    /\ \E k, l \in 1..Len(Observed) : k < l /\ Observed[k] = RawA /\ Observed[l] = RawA2
    /\ Len(responses) >= 2 /\ responses[1] # responses[2]

(* C2, as amended: no emitted entry has a domain containing a denylisted   *)
(* substring, the domain of a url being its third "/"-separated segment    *)
(* when the url contains "//" and its first "/"-separated segment otherwise *)
C2_NoDenylistedSegment ==
    Emitted => \A i \in 1..Len(evidence) : ~Denylisted(SegmentDomain(evidence[i].url))

\* a result on a denylisted domain was observed and is not among the entries
C2_Witness ==
    /\ Emitted
    /\ Len(evidence) > 0
    /\ \E k \in 1..Len(Observed) :
          /\ Denylisted(SegmentDomain(Observed[k].url))
          /\ \A i \in 1..Len(evidence) : evidence[i].url # Observed[k].url

(* C2, as stated: no emitted entry has a domain containing a denylisted    *)
(* substring, the domain being the substring between the first "//" and    *)
(* the next "/", or the whole url when it contains no "//"                 *)
C2_NoDenylistedHost ==
    Emitted => \A i \in 1..Len(evidence) : ~Denylisted(HostDomain(evidence[i].url))

(* C3: the entries are in the order in which their urls were first         *)
(* observed (queries in planning order, results in returned order); the    *)
(* filter removes results and never reorders them                          *)
C3_FirstSeenOrder ==
    Emitted =>
        /\ \A i \in 1..Len(evidence) : PositionsOf(evidence[i].url) # {}
        /\ \A i, j \in 1..Len(evidence) :
              i < j => FirstPosition(evidence[i].url) < FirstPosition(evidence[j].url)
        /\ submitted = queries

\* Q1 -> [A, B], Q2 -> [C, A, D] gives the entries A, B, C
C3_Witness ==
    /\ Emitted
    /\ Len(queries) = 2
    /\ Observed = << RawA, RawB, RawC, RawA2, RawD >>
    /\ [i \in 1..Len(evidence) |-> evidence[i].url] = << RawA.url, RawB.url, RawC.url >>

----------------------------------------------------------------------------
(* The filter as the specification words it: a field a record lacks reads  *)
(* as the empty string                                                     *)

FieldOr(result, f) == IF f \in DOMAIN result THEN result[f] ELSE ""

RECURSIVE LenientFilter(_, _, _, _)
LenientFilter(results, i, seen, out) ==
    IF i > Len(results) THEN out
    ELSE LET url == FieldOr(results[i], "url")
             domain == SegmentDomain(url)
         IN  IF url \in seen THEN LenientFilter(results, i + 1, seen, out)
             ELSE IF Denylisted(domain) THEN LenientFilter(results, i + 1, seen \cup {url}, out)
             ELSE LenientFilter(results, i + 1, seen \cup {url},
                                Append(out, [source_label |-> SourceLabel(domain),
                                             url |-> url,
                                             title |-> FieldOr(results[i], "title"),
                                             snippet |-> FieldOr(results[i], "content")]))

LenientOutput(results) ==
    LET entries == LenientFilter(results, 1, {}, << >>) IN
    Join("\n", [k \in 1..Len(entries) |-> FormatEntry(entries[k])])

\* the record has its url, title and content
WellFormed(result) == {"url", "title", "content"} \subseteq DOMAIN result

(* C4: a failed search call contributes no results for its query only:     *)
(* every planned query is executed, the output is the filtered, formatted  *)
(* concatenation of the pages of the calls that succeeded, and it is the   *)
(* empty string, not an error value, when no call returned a result        *)
C4_FailedQueryIsLocal ==
    (pc = "analyze" /\ \E k \in 1..Len(responses) : ResultsOf(responses[k]) = None) =>
        /\ submitted = queries
        /\ search_results = Some(LenientOutput(Observed))
        /\ (Observed = << >> => search_results = Some(""))

(* C5: a raw result that lacks its url, title or snippet does not fail the *)
(* request: the field reads as the empty string and the well-formed        *)
(* results of the same and of the other queries are still emitted          *)
C5_MissingFieldIsEmpty ==
    pc = "analyze" =>
        /\ ~StartsWith(search_results[1], "Search failed")
        /\ \A k \in 1..Len(Observed) :
              (WellFormed(Observed[k]) /\ ~Denylisted(SegmentDomain(Observed[k].url)))
                  => \E i \in 1..Len(evidence) : evidence[i].url = Observed[k].url
        /\ \A k \in 1..Len(Observed) :
              (~WellFormed(Observed[k]) /\ "url" \in DOMAIN Observed[k]
                 /\ ~Denylisted(SegmentDomain(Observed[k].url)))
                  => \E i \in 1..Len(evidence) :
                        /\ evidence[i].url = Observed[k].url
                        /\ evidence[i].title = FieldOr(Observed[k], "title")

----------------------------------------------------------------------------
\* the category branch the planner takes: the first of Restaurant, Hotel, Spa
\* that is a substring of the category
FirstBranch(cat) ==
    IF Contains(cat, "Restaurant") THEN "Restaurant"
    ELSE IF Contains(cat, "Hotel") THEN "Hotel"
    ELSE IF Contains(cat, "Spa") THEN "Spa"
    ELSE "none"

\* the site restrictions that open the add-on queries of a branch
BranchSites(branch) ==
    IF branch = "Restaurant"
    THEN << "site:guide.michelin.com", "site:gaultmillau.ch", "site:lematin.ch" >>
    ELSE IF branch = "Hotel" THEN << "site:booking.com", "site:tripadvisor.com" >>
    ELSE IF branch = "Spa" THEN << "site:elle.com" >>
    ELSE << >>

(* C6: the planned list is the generic query followed by the add-ons of    *)
(* the first matching branch only (Restaurant, then Hotel, then Spa, as    *)
(* case-sensitive substrings of the category): 4 queries for a category    *)
(* containing "Restaurant", 1 for a category containing none of the three  *)
C6_FirstBranchOnly ==
    pc \in {"search", "waiting", "analyze"} =>
        LET sites == BranchSites(FirstBranch(category)) IN
        /\ Len(queries) = 1 + Len(sites)
        /\ StartsWith(queries[1], merchant_name \o " " \o location)
        /\ ~Contains(queries[1], "site:")
        /\ \A k \in 1..Len(sites) : StartsWith(queries[k + 1], sites[k])
        /\ (Contains(category, "Restaurant") => Len(queries) = 4)
        /\ (FirstBranch(category) = "none" => Len(queries) = 1)

\* a category naming both Restaurant and Hotel got the Restaurant add-ons only
C6_Witness ==
    /\ pc = "search"
    /\ category = "Restaurant & Hotel"
    /\ Len(queries) = 4
    /\ \A k \in 1..Len(queries) : ~Contains(queries[k], "site:booking.com")

----------------------------------------------------------------------------
\* the label table, in order: the keywords of a row and its label
LabelTable ==
    << << {"google"}, "GOOGLE REVIEWS" >>,
       << {"booking.com"}, "BOOKING.COM" >>,
       << {"michelin"}, "MICHELIN GUIDE (Swiss/FR)" >>,
       << {"gaultmillau"}, "GAULT MILLAU (Swiss/FR)" >>,
       << {"tripadvisor"}, "TRIPADVISOR" >>,
       << {"lematin", "20min", "tdg.ch"}, "SWISS PRESS" >>,
       << {"elle", "vogue", "cosmo"}, "FASHION MAGAZINE" >> >>

RowMatches(row, domain) == \E kw \in LabelTable[row][1] : Contains(domain, kw)

\* the label of the first row that matches, "General Web" when none does
TableLabel(domain) ==
    LET rows == { r \in 1..Len(LabelTable) : RowMatches(r, domain) } IN
    IF rows = {} THEN "General Web"
    ELSE LabelTable[CHOOSE r \in rows : \A o \in rows : r <= o][2]

(* C7: every emitted entry carries the label of the first table row whose  *)
(* keyword is a substring of its domain, "General Web" when no row         *)
(* matches; two urls on the same domain carry the same label               *)
C7_FirstRowLabel ==
    Emitted =>
        /\ \A i \in 1..Len(evidence) :
              evidence[i].source_label = TableLabel(SegmentDomain(evidence[i].url))
        /\ \A i, j \in 1..Len(evidence) :
              SegmentDomain(evidence[i].url) = SegmentDomain(evidence[j].url)
                  => evidence[i].source_label = evidence[j].source_label

\* a domain matching two rows got the earlier row's label, and two urls on
\* one domain were both emitted
C7_Witness ==
    /\ Emitted
    /\ \E i \in 1..Len(evidence) :
          /\ evidence[i].url = RawG.url
          /\ RowMatches(1, SegmentDomain(RawG.url)) /\ RowMatches(2, SegmentDomain(RawG.url))
          /\ evidence[i].source_label = "GOOGLE REVIEWS"
    /\ \E i, j \in 1..Len(evidence) :
          /\ evidence[i].url # evidence[j].url
          /\ SegmentDomain(evidence[i].url) = SegmentDomain(evidence[j].url)

----------------------------------------------------------------------------
(* C10: the planned queries are submitted one at a time, in planning       *)
(* order, each exactly once whether its call succeeds or fails: what was   *)
(* submitted is always a prefix of the plan, at most one call is           *)
(* outstanding, and when the loop is over every query was submitted        *)
C10_OneAtATimeInOrder ==
    /\ Len(submitted) <= Len(queries)
    /\ submitted = SubSeq(queries, 1, Len(submitted))
    /\ Len(submitted) = Len(responses) + (IF pc = "waiting" THEN 1 ELSE 0)
    /\ (pc = "search" => Len(submitted) = qi - 1)
    /\ (pc = "analyze" => submitted = queries)

\* four queries were run, the first call failed and a later one succeeded
C10_Witness ==
    /\ pc = "analyze"
    /\ Len(queries) = 4
    /\ submitted = queries
    /\ ResultsOf(responses[1]) = None
    /\ ResultsOf(responses[3]) # None

----------------------------------------------------------------------------
\* an accepted click on "Analyze Page" that gets as far as the research
StartsRequest == AnalyzeClick /\ pc' = "search"

(* C8: when the report generator's call fails, the request ends with a     *)
(* failure result: the stored result is a text beginning with "FATAL       *)
(* ERROR", the report block shows it as an error, the generator was called *)
(* once in the request, and a new request can be started (once the         *)
(* cooldown since the failed request's start has passed)                   *)
C8_GeneratorFailureIsTerminal ==
    /\ [][(pc = "analyze" /\ genOutcome' = "failed") =>
            /\ analysis_result' # None
            /\ StartsWith(analysis_result'[1], "FATAL ERROR")
            /\ displayed' = "error"
            /\ genCalls' = 1
            /\ pc' = "idle"]_vars
    /\ [](genOutcome = "failed" =>
            /\ pc = "idle"
            /\ genCalls = 1
            /\ (now - last_analysis_time >= Cooldown => ENABLED StartsRequest))

\* a failed generator call left its text stored and shown, and the cooldown is over
C8_Witness ==
    /\ genOutcome = "failed"
    /\ analysis_result = Some("FATAL ERROR: connection reset")
    /\ displayed = "error"
    /\ now - last_analysis_time >= Cooldown
    /\ ENABLED StartsRequest

----------------------------------------------------------------------------
\* the number of consecutive separator characters of text from position from
RECURSIVE SepRun(_, _)
SepRun(text, from) ==
    IF from <= Len(text) /\ IsSepChar(CharAt(text, from)) THEN 1 + SepRun(text, from + 1) ELSE 0

\* the number of consecutive digits of text from position from
RECURSIVE DigitRun(_, _)
DigitRun(text, from) ==
    IF from <= Len(text) /\ IsDigit(CharAt(text, from)) THEN 1 + DigitRun(text, from + 1) ELSE 0

\* a "score" token in any letter case at i, then one or more colon or
\* whitespace characters, then a number of one to three digits
ScoreNumberAt(text, i) ==
    /\ i + 4 <= Len(text)
    /\ Lower(SubSeq(text, i, i + 4)) = "score"
    /\ SepRun(text, i + 5) >= 1
    /\ DigitRun(text, i + 5 + SepRun(text, i + 5)) \in 1..3

AmendedScore(text) ==
    LET at == { i \in 1..Len(text) : ScoreNumberAt(text, i) } IN
    IF at = {} THEN "N/A"
    ELSE LET i == CHOOSE h \in at : \A o \in at : h <= o
             from == i + 5 + SepRun(text, i + 5)
         IN  SubSeq(text, from, from + DigitRun(text, from) - 1)

\* the token "Score" at i, then one or more colon or whitespace characters,
\* then a digit: the pattern Score[:\s]+<1-3 digits>
ScorePatternAt(text, i) ==
    /\ i + 4 <= Len(text)
    /\ SubSeq(text, i, i + 4) = "Score"
    /\ SepRun(text, i + 5) >= 1
    /\ DigitRun(text, i + 5 + SepRun(text, i + 5)) >= 1

StatedScore(text) ==
    LET at == { i \in 1..Len(text) : ScorePatternAt(text, i) } IN
    IF at = {} THEN "N/A"
    ELSE LET i == CHOOSE h \in at : \A o \in at : h <= o
             from == i + 5 + SepRun(text, i + 5)
             d == IF DigitRun(text, from) > 3 THEN 3 ELSE DigitRun(text, from)
         IN  SubSeq(text, from, from + d - 1)

(* C9, as amended: the score of the archived row is the number of one to   *)
(* three digits (not followed by a further digit) that follows the         *)
(* leftmost "Score" token, in any letter case, and one or more colon or    *)
(* whitespace characters; it is "N/A" when the text has no such occurrence *)
C9_ScoreOfRow ==
    archive # None => archive[1].score = AmendedScore(archive[1].report_text)

\* "Score: 87/100 - Needs Review" was archived with the score 87
C9_Witness ==
    /\ archive # None
    /\ archive[1].report_text = "Score: 87/100 - Needs Review"
    /\ archive[1].score = "87"

(* C9, as stated: the score of the archived row is the 1-3 digit number    *)
(* that follows a "Score" token and one or more colon or whitespace        *)
(* characters, and "N/A" when the text holds no such pattern               *)
C9_ScoreOfRowAsStated ==
    archive # None => archive[1].score = StatedScore(archive[1].report_text)

----------------------------------------------------------------------------
\* the stored result, name and category agree: nothing is stored under no
\* name, and a stored result carries the name and category submitted with
\* the last accepted request, the one that produced it
TripleConsistent ==
    /\ (analysis_result = None => current_archive_name = "" /\ current_category = "")
    /\ (analysis_result # None =>
            /\ pc = "idle"
            /\ current_archive_name = archive_name
            /\ current_category = category
            /\ current_archive_name # "")

(* C11: after any sequence of Analyze, Save to Archive and Trash / Clear   *)
(* actions, analyses stopped by a scrape failure included, the stored      *)
(* triple is consistent: with no result stored the name and category are   *)
(* empty, a stored result carries the name and category submitted with the *)
(* request that produced it, and a row Save to Archive appends holds that  *)
(* result under that name and category                                     *)
C11_StoredTripleConsistent ==
    /\ []TripleConsistent
    /\ [][archive' # archive =>
            /\ archive'[1].report_text = analysis_result[1]
            /\ archive'[1].deal_name = archive_name
            /\ archive'[1].category = category
            /\ UNCHANGED << analysis_result, archive_name, category >>]_vars

\* a report archived under one name, then a request under another name that a
\* scrape failure stopped, or whose report was cleared: nothing is stored
C11_Witness ==
    /\ pc = "idle"
    /\ archive # None
    /\ archive[1].deal_name = "Amore Feb 2026"
    /\ archive_name = "Bellevue Mar 2026"
    /\ notice = "scrape_failed"
    /\ analysis_result = None
    /\ current_archive_name = ""

----------------------------------------------------------------------------
\* the step is a click on Analyze that ran the pipeline, up to the scrape at least
RunsPipeline == AnalyzeClick /\ (pc' = "search" \/ notice' = "scrape_failed")

(* C12: two analyses never start less than 10 seconds apart. A click on    *)
(* Analyze runs the pipeline only when at least 10 seconds have passed     *)
(* since the last analysis that was started, and it then records its own   *)
(* start time; a click rejected by the cooldown or by a missing mandatory  *)
(* field leaves last_analysis_time and the stored result, name and         *)
(* category as they were; nothing else moves last_analysis_time            *)
C12_StartsTenSecondsApart ==
    [][/\ RunsPipeline =>
            /\ now - last_analysis_time >= Cooldown
            /\ last_analysis_time' = now
       /\ AnalyzeClick /\ ~RunsPipeline =>
            /\ notice' \in {"cooldown", "mandatory"}
            /\ UNCHANGED << last_analysis_time, analysis_result,
                            current_archive_name, current_category, pc >>
       /\ last_analysis_time' # last_analysis_time => RunsPipeline]_vars

\* a second analysis was started ten seconds after the first, and a click
\* five seconds later was rejected by the cooldown with its report still stored
C12_Witness ==
    /\ notice = "cooldown"
    /\ last_analysis_time = StartTime + Cooldown
    /\ now - last_analysis_time < Cooldown
    /\ now > last_analysis_time
    /\ analysis_result # None

=============================================================================
